---- MODULE Spec2Model ----
(***************************************************************************)
(* Model of remove_dxf (src/src/bin/remove_dxf.rs): the sweep that walks   *)
(* the job tree, selects the directories matching **/Fab/**/DXF, drops the *)
(* ones modified less than sixty days ago, and removes every *.dxf entry   *)
(* of the remaining ones together with its .log sibling.                   *)
(*                                                                         *)
(* A file name is a record [stem, ext] ("p1.dxf" is stem "p1", ext "dxf"; *)
(* a name without a dot has ext ""), a path is the sequence of the names   *)
(* below ROOT_DIR (ROOT_DIR itself is << >>), and the file system is a     *)
(* function from the existing paths to their metadata. The clock stands    *)
(* still during a run and between two runs that follow one another.        *)
(***************************************************************************)
EXTENDS Integers, Sequences, FiniteSets, TLC

\* ------------------------------------------------------------- bounds
\* Longest chain of nested directories below ROOT_DIR.
MaxDepth == 3
\* Number of consecutive invocations of the program.
MaxRuns == 2

\* ---------------------------------------------------------- constants
\* const SIXTY_DAYS: Duration, in seconds.
SIXTY_DAYS == 60 * 24 * 60 * 60

\* ROOT_DIR, as the empty path relative to itself.
ROOT_DIR == << >>

\* -------------------------------------------------------------- names
Name(s, e) == [stem |-> s, ext |-> e]
Fab == Name("Fab", "")
DXF == Name("DXF", "")
Sub == Name("Sub", "")
DirNames == {Fab, DXF, Sub}

\* ----------------------------------------------------------- metadata
\* elapsed: seconds since the last modification; metaOk: the metadata and the
\* modification time can be read and the time is not in the future;
\* readable: the directory can be enumerated.
DirMeta(el, mok, rd) == [kind |-> "dir", elapsed |-> el, metaOk |-> mok, readable |-> rd]
FileMeta(el) == [kind |-> "file", elapsed |-> el, metaOk |-> TRUE, readable |-> TRUE]

Old == SIXTY_DAYS
Recent == SIXTY_DAYS - 1

\* The entries a directory of the tree holds beside its sub-directory.
\* KitPair: a pair p1.dxf/p1.log and a p2.dxf without a log.
KitPair ==
    (Name("p1", "dxf") :> FileMeta(Old)) @@ (Name("p1", "log") :> FileMeta(Old))
        @@ (Name("p2", "dxf") :> FileMeta(Old))
\* KitFresh: a freshly written pair, and a directory named p2.dxf beside a
\* p2.log.
KitFresh ==
    (Name("p1", "dxf") :> FileMeta(Recent)) @@ (Name("p1", "log") :> FileMeta(Recent))
        @@ (Name("p2", "dxf") :> DirMeta(Old, TRUE, TRUE))
        @@ (Name("p2", "log") :> FileMeta(Old))
\* KitFile: a plain file named DXF, and a pair.
KitFile ==
    (DXF :> FileMeta(Old)) @@ (Name("p1", "dxf") :> FileMeta(Old))
        @@ (Name("p1", "log") :> FileMeta(Old))
Kits == {KitPair, KitFresh, KitFile}

\* ------------------------------------------------------- path helpers
Parent(p) == SubSeq(p, 1, Len(p) - 1)
Last(p) == p[Len(p)]
Prefix(p, i) == SubSeq(p, 1, i)
IsChild(p, d) == Len(p) = Len(d) + 1 /\ Parent(p) = d
IsBelow(p, d) == Len(p) > Len(d) /\ Prefix(p, Len(d)) = d

\* ------------------------------------------------- initial file trees
Chains == UNION {[1..n -> DirNames] : n \in 0..MaxDepth}
\* At most one directory of the chain is special: modified recently, with
\* unreadable metadata, or not enumerable.
Specials(c) ==
    {[at |-> -1, st |-> "none"]}
        \cup {[at |-> i, st |-> s] : i \in 0..Len(c), s \in {"new", "metaErr", "unreadable"}}

ChainMeta(i, sp) ==
    DirMeta(IF sp.at = i /\ sp.st \in {"new", "metaErr"} THEN Recent ELSE Old,
            ~(sp.at = i /\ sp.st = "metaErr"),
            ~(sp.at = i /\ sp.st = "unreadable"))

MkFs(c, sp, kit) ==
    LET dirs == {Prefix(c, i) : i \in 0..Len(c)}
        kitPaths == {Append(d, n) : d \in dirs, n \in DOMAIN kit} \ dirs
    IN  [p \in dirs \cup kitPaths |->
            IF p \in dirs THEN ChainMeta(Len(p), sp) ELSE kit[Last(p)]]

VARIABLES
    fs,         \* the file system below ROOT_DIR
    pc,         \* "idle" | "walk" | "remove"
    stack,      \* the outer walk: the entries of each open directory still to visit
    cur,        \* the directory remove_files is scanning
    todo,       \* the entries of the inner walk still to come
    dirCount,   \* the running sum of remove_files (a u32, far from its limit here)
    deleted,    \* the running sum of main (likewise)
    reports,    \* the totals logged, one per run
    exit,       \* "none" while main runs, "ok" once it has returned Ok(())
    fsStart,    \* history: the file system when the run started
    visited,    \* history: the entries the outer walk has looked at
    matched,    \* history: the directories handed to remove_files
    attempted,  \* history: the paths handed to remove_file
    counted     \* history: the paths for which remove_file returned Ok

vars == <<fs, pc, stack, cur, todo, dirCount, deleted, reports, exit,
          fsStart, visited, matched, attempted, counted>>

Exists(p) == p \in DOMAIN fs
\* Path::is_dir
is_dir(p) == Exists(p) /\ fs[p].kind = "dir"

\* ReadDir that lists a directory whatever its permissions.
ReadDir_IgnoreErrors(d) ==
    IF is_dir(d) THEN {p \in DOMAIN fs : IsChild(p, d)} ELSE {}

\* The entries walkdir lists for a directory; a directory that cannot be
\* enumerated yields an error item and no entry.
ReadDir(d) ==
    IF is_dir(d) /\ fs[d].readable THEN {p \in DOMAIN fs : IsChild(p, d)} ELSE {}

\* GlobDxfFolders with the pattern "**/DXF": the Fab component forgotten.
GlobDxfFolders_NoFab(p) == Len(p) >= 1 /\ Last(p) = DXF

\* Glob "**/Fab/**/DXF" on a path relative to the root of the walk: the last
\* component is DXF and some earlier component is Fab.
GlobDxfFolders(p) ==
    /\ Len(p) >= 2
    /\ Last(p) = DXF
    /\ \E i \in 1..(Len(p) - 1) : p[i] = Fab

\* GlobDxfFiles with the pattern "**/*.dxf": any depth.
GlobDxfFiles_Recursive(rel) == Len(rel) >= 1 /\ Last(rel).ext = "dxf"

\* Glob "*.dxf" on a path relative to the root of the walk: one component,
\* whose name ends in ".dxf".
GlobDxfFiles(rel) == Len(rel) = 1 /\ rel[1].ext = "dxf"

\* Path::with_extension
with_extension(p, e) == [p EXCEPT ![Len(p)].ext = e]

\* too_old doing what its name says: true for an entry older than the window.
too_old_AsNamed(entry) ==
    IF ~Exists(entry) \/ ~fs[entry].metaOk
    THEN [ok |-> FALSE, val |-> FALSE]
    ELSE [ok |-> TRUE, val |-> fs[entry].elapsed >= SIXTY_DAYS]

\* too_old: Ok(elapsed < SIXTY_DAYS), or Err when the metadata, the
\* modification time or the elapsed time cannot be had.
too_old(entry) ==
    IF ~Exists(entry) \/ ~fs[entry].metaOk
    THEN [ok |-> FALSE, val |-> FALSE]
    ELSE [ok |-> TRUE, val |-> fs[entry].elapsed < SIXTY_DAYS]

\* filter_dxf_folders answering File where it answers Tree: the directory is
\* dropped and its tree is still walked.
filter_dxf_folders_FileOnly(entry) ==
    IF ~is_dir(entry) THEN "File"
    ELSE IF ~too_old(entry).ok THEN "None"
    ELSE IF too_old(entry).val THEN "File"
    ELSE "None"

\* filter_dxf_folders: Some(File), Some(Tree) or None.
filter_dxf_folders(entry) ==
    IF ~is_dir(entry) THEN "File"
    ELSE IF ~too_old(entry).ok THEN "None"
    ELSE IF too_old(entry).val THEN "Tree"
    ELSE "None"

\* std::fs::remove_file on file system f: removes a file, and fails on a
\* missing path and on a directory. Removing an entry modifies its directory.
FsRemoveFile(f, p) ==
    IF p \in DOMAIN f /\ f[p].kind = "file"
    THEN [ok |-> TRUE,
          fs |-> [q \in DOMAIN f \ {p} |->
                    IF q = Parent(p) THEN [f[q] EXCEPT !.elapsed = 0] ELSE f[q]]]
    ELSE [ok |-> FALSE, fs |-> f]

\* remove_file that drops the result of the second removal.
remove_file_IgnoreLog(path) ==
    LET r1 == FsRemoveFile(fs, path)
        r2 == FsRemoveFile(r1.fs, with_extension(path, "log"))
    IN  IF ~r1.ok THEN [ok |-> FALSE, fs |-> r1.fs]
        ELSE [ok |-> TRUE, fs |-> r2.fs]

\* remove_file that looks for the .log before it removes the .dxf.
remove_file_CheckLogFirst(path) ==
    LET r1 == FsRemoveFile(fs, path)
        r2 == FsRemoveFile(r1.fs, with_extension(path, "log"))
    IN  IF with_extension(path, "log") \notin DOMAIN fs THEN [ok |-> FALSE, fs |-> fs]
        ELSE IF ~r1.ok THEN [ok |-> FALSE, fs |-> r1.fs]
        ELSE [ok |-> r2.ok, fs |-> r2.fs]

\* remove_file that reports what it would remove and removes nothing.
remove_file_DryRun(path) ==
    LET r1 == FsRemoveFile(fs, path)
        r2 == FsRemoveFile(r1.fs, with_extension(path, "log"))
    IN  [ok |-> r1.ok /\ r2.ok, fs |-> fs]

\* remove_file: the .dxf, then the .log; Ok only when both are removed.
remove_file(path) ==
    LET r1 == FsRemoveFile(fs, path)
        r2 == FsRemoveFile(r1.fs, with_extension(path, "log"))
    IN  IF ~r1.ok THEN [ok |-> FALSE, fs |-> r1.fs]
        ELSE [ok |-> r2.ok, fs |-> r2.fs]

\* The entries walkdir reaches below path: every directory on the way down
\* can be enumerated.
Descendants(path) ==
    {p \in DOMAIN fs :
        /\ IsBelow(p, path)
        /\ \A i \in Len(path)..(Len(p) - 1) : ReadDir(Prefix(p, i)) # {}}

\* The entries DXF_FILES.get().unwrap().walk(path) yields: the ones whose path
\* relative to path the glob "*.dxf" matches.
DxfEntries(path) ==
    {p \in Descendants(path) : GlobDxfFiles(SubSeq(p, Len(path) + 1, Len(p)))}

\* The open directories of the walk, without the exhausted ones.
Push(stk, frame) == IF frame = {} THEN stk ELSE Append(stk, frame)
Rest(stk, p) ==
    LET top == stk[Len(stk)] \ {p}
    IN  Push(SubSeq(stk, 1, Len(stk) - 1), top)

Init ==
    /\ \E c \in Chains : \E sp \in Specials(c) : \E kit \in Kits :
            fs = MkFs(c, sp, kit)
    /\ fsStart = fs
    /\ pc = "idle"
    /\ stack = << >>
    /\ cur = ROOT_DIR
    /\ todo = {}
    /\ dirCount = 0
    /\ deleted = 0
    /\ reports = << >>
    /\ exit = "none"
    /\ visited = {}
    /\ matched = {}
    /\ attempted = {}
    /\ counted = {}

\* main, up to the first pull on the iterator chain.
Main ==
    /\ pc = "idle"
    /\ Len(reports) < MaxRuns
    /\ pc' = "walk"
    /\ stack' = << {ROOT_DIR} >>
    /\ deleted' = 0
    /\ dirCount' = 0
    /\ exit' = "none"
    /\ fsStart' = fs
    /\ visited' = {}
    /\ matched' = {}
    /\ attempted' = {}
    /\ counted' = {}
    /\ UNCHANGED <<fs, cur, todo, reports>>

\* The entries of a listing that the outer walk passes over inside the loop
\* of its next(): they are no directory to open and the glob does not match
\* them, so they never reach filter_dxf_folders.
Inert(entries) == {p \in entries : ~is_dir(p) /\ ~GlobDxfFolders(p)}

\* One step of Glob("**/Fab/**/DXF").walk(ROOT_DIR).filter_tree(..)
\* .filter_map(ok): walkdir hands over an entry of the deepest open directory,
\* in no particular order; only an entry the glob matches reaches
\* filter_dxf_folders; a directory that passes is handed to remove_files; a
\* directory is opened unless the filter answered Tree.
WalkNext ==
    /\ pc = "walk"
    /\ stack # << >>
    /\ \E p \in stack[Len(stack)] :
        LET target == IF GlobDxfFolders(p) THEN filter_dxf_folders(p) ELSE "NoMatch"
            yielded == target = "None"
            listing == IF target = "Tree" THEN {} ELSE ReadDir(p)
        IN  /\ visited' = visited \cup {p} \cup Inert(listing)
            /\ stack' = Push(Rest(stack, p), listing \ Inert(listing))
            /\ IF yielded
               THEN /\ matched' = matched \cup {p}
                    /\ pc' = "remove"
                    /\ cur' = p
                    /\ todo' = DxfEntries(p)
                    /\ dirCount' = 0
               ELSE UNCHANGED <<matched, pc, cur, todo, dirCount>>
    /\ UNCHANGED <<fs, deleted, reports, exit, fsStart, attempted, counted>>

\* One entry of remove_files' walk: remove_file(entry.path()).is_ok() as u32.
RemoveFile ==
    /\ pc = "remove"
    /\ \E f \in todo :
        LET r == remove_file(f)
        IN  /\ fs' = r.fs
            /\ todo' = todo \ {f}
            /\ dirCount' = dirCount + (IF r.ok THEN 1 ELSE 0)
            /\ attempted' = attempted \cup {f}
            /\ counted' = IF r.ok THEN counted \cup {f} ELSE counted
    /\ UNCHANGED <<pc, stack, cur, deleted, reports, exit, fsStart, visited, matched>>

\* remove_files returns its sum, which main adds to its own.
RemoveFilesSum ==
    /\ pc = "remove"
    /\ todo = {}
    /\ deleted' = deleted + dirCount
    /\ pc' = "walk"
    /\ UNCHANGED <<fs, stack, cur, todo, dirCount, reports, exit, fsStart,
                   visited, matched, attempted, counted>>

\* The walk is exhausted: log::info!("Deleted {} dxf files"), Ok(()).
Report ==
    /\ pc = "walk"
    /\ stack = << >>
    /\ reports' = Append(reports, deleted)
    /\ exit' = "ok"
    /\ pc' = "idle"
    /\ UNCHANGED <<fs, stack, cur, todo, dirCount, deleted, fsStart,
                   visited, matched, attempted, counted>>

Next == Main \/ WalkNext \/ RemoveFile \/ RemoveFilesSum \/ Report

Spec == Init /\ [][Next]_vars

\* ===================================================================
\* Properties
\* ===================================================================

\* A run has ended and logged its total.
RunDone == pc = "idle" /\ Len(reports) >= 1
\* The total the last run logged.
Reported == reports[Len(reports)]

\* The path's last segment is DXF and an earlier segment is Fab.
FabThenDxfLast(p) ==
    \E i, j \in 1..Len(p) : i < j /\ j = Len(p) /\ p[i] = Fab /\ p[j] = DXF
\* The path holds a Fab segment and, somewhere after it, a DXF segment.
ContainsFabThenDxf(p) ==
    \E i, j \in 1..Len(p) : i < j /\ p[i] = Fab /\ p[j] = DXF
\* The sibling with the extension replaced by log.
LogOf(p) == [i \in 1..Len(p) |-> IF i = Len(p) THEN Name(p[i].stem, "log") ELSE p[i]]
\* p names something with the extension dxf.
IsDxfName(p) == Len(p) >= 1 /\ p[Len(p)].ext = "dxf"
\* The .dxf files of file system f.
DxfFilesOf(f) == {p \in DOMAIN f : IsDxfName(p) /\ f[p].kind = "file"}
\* p was there when the run started and is no more.
Gone(p) == p \in DOMAIN fsStart /\ p \notin DOMAIN fs
\* d is a directory of f whose modification time reads as within the window.
RecentDir(f, d) ==
    d \in DOMAIN f /\ f[d].kind = "dir" /\ f[d].metaOk /\ f[d].elapsed < SIXTY_DAYS
\* d is a Fab/../DXF directory of f that the age rule drops.
AgePruned(f, d) == RecentDir(f, d) /\ FabThenDxfLast(d)
\* Every proper ancestor of p can be enumerated and is not dropped by age.
Reached(f, p) ==
    \A i \in 0..(Len(p) - 1) : f[Prefix(p, i)].readable /\ ~AgePruned(f, Prefix(p, i))
\* The directories a sweep of f is to select.
ExpectedMatched(f) ==
    {p \in DOMAIN f :
        f[p].kind = "dir" /\ FabThenDxfLast(p) /\ ~AgePruned(f, p) /\ Reached(f, p)}

\* C1 as stated: no .dxf file below a directory (of the tree under the root)
\* whose modification time is within the retention window (elapsed < 60
\* days) is ever deleted.
C1_Original ==
    \A p \in DOMAIN fsStart :
        (IsDxfName(p) /\ Gone(p)) =>
            \A i \in 1..(Len(p) - 1) : ~RecentDir(fsStart, Prefix(p, i))

\* C1 amended: no .dxf file below a directory that matches Fab/../DXF and
\* whose modification time, read at the start of the run, is within the
\* retention window is ever deleted.
C1_NoDeletionBelowRecentDxfFolder ==
    \A p \in DOMAIN fsStart :
        (IsDxfName(p) /\ Gone(p)) =>
            \A i \in 0..(Len(p) - 1) : ~AgePruned(fsStart, Prefix(p, i))

\* A finished run that removed a .dxf file and left one below a recent
\* Fab/../DXF directory.
C1_Witness ==
    /\ RunDone
    /\ \E p \in DxfFilesOf(fsStart) : Gone(p)
    /\ \E q \in DxfFilesOf(fs) :
        /\ LogOf(q) \in DOMAIN fs
        /\ \E i \in 0..(Len(q) - 1) : AgePruned(fsStart, Prefix(q, i))

\* C2 as stated: a .dxf file is deleted only when it has a companion .log;
\* one without a companion is never deleted.
C2_OnlyWithLog ==
    \A p \in DOMAIN fsStart :
        (IsDxfName(p) /\ Gone(p)) => LogOf(p) \in DOMAIN fsStart

\* C3 as stated: every .dxf file the sweep deletes was itself last modified
\* at least 60 days before the run.
C3_OnlyOldFiles ==
    \A p \in DOMAIN fsStart :
        (IsDxfName(p) /\ Gone(p)) => fsStart[p].elapsed >= SIXTY_DAYS

\* C4: a .dxf path handed to the paired deletion adds 1 to the total exactly
\* when it and its .log sibling are both removed; the running sums count
\* those paths, and the total logged is their number and never more than the
\* number of .dxf files present when the run started.
C4_DeletionPairing ==
    /\ \A p \in attempted :
        (p \in counted) <=> (Gone(p) /\ Gone(LogOf(p)))
    /\ counted \subseteq attempted
    /\ pc # "idle" => deleted + (IF pc = "remove" THEN dirCount ELSE 0) = Cardinality(counted)
    /\ RunDone =>
        /\ Reported = Cardinality({p \in DxfFilesOf(fsStart) : Gone(p) /\ Gone(LogOf(p))})
        /\ Reported <= Cardinality(DxfFilesOf(fsStart))

\* A finished run that counted one pair and did not count another candidate
\* it removed.
C4_Witness ==
    /\ RunDone
    /\ Reported >= 1
    /\ \E p \in attempted \ counted : Gone(p)

C6_Original ==
    \A d \in DOMAIN fsStart \ {ROOT_DIR} :
        RecentDir(fsStart, d) =>
            /\ d \notin matched
            /\ \A q \in visited \cup matched : ~IsBelow(q, d)

\* C6 amended: the same for any directory that matches Fab/../DXF and whose
\* modification time, read at the start of the run, is within the window.
C6_PruneRecentDxfFolder ==
    \A d \in DOMAIN fsStart :
        AgePruned(fsStart, d) =>
            /\ d \notin matched
            /\ \A q \in visited \cup matched : ~IsBelow(q, d)

\* A finished run that came across a recent Fab/../DXF directory holding an
\* old Fab/../DXF directory.
C6_Witness ==
    /\ RunDone
    /\ \E d \in visited :
        /\ AgePruned(fsStart, d)
        /\ \E q \in DOMAIN fsStart :
            /\ IsBelow(q, d)
            /\ FabThenDxfLast(q)
            /\ fsStart[q].kind = "dir"
            /\ ~RecentDir(fsStart, q)

\* C7 as stated: a path is selected iff it is a directory whose segments
\* hold Fab followed later by DXF (checked on the paths no walk error or
\* unreadable metadata stands in the way of).
C7_Original ==
    RunDone =>
        \A p \in DOMAIN fsStart :
            (\A i \in 0..Len(p) :
                fsStart[Prefix(p, i)].readable /\ fsStart[Prefix(p, i)].metaOk)
            => ((p \in matched) <=> (fsStart[p].kind = "dir" /\ ContainsFabThenDxf(p)))

\* C7 amended: a path is selected iff it is a directory whose last segment
\* is DXF with a Fab segment before it, whose modification time does not
\* read as within the window, and whose ancestors can all be enumerated and
\* are not Fab/../DXF directories dropped for their age.
C7_StructuralMatch ==
    /\ matched \subseteq ExpectedMatched(fsStart)
    /\ RunDone => matched = ExpectedMatched(fsStart)

\* A finished run that selected a directory and left out a directory below
\* Fab/../DXF whose own name is not DXF.
C7_Witness ==
    /\ RunDone
    /\ matched # {}
    /\ \E q \in DOMAIN fsStart \ matched :
        /\ fsStart[q].kind = "dir"
        /\ ContainsFabThenDxf(q)
        /\ ~FabThenDxfLast(q)

\* C8 as stated: every .dxf file at any depth below a selected directory is
\* handed to the paired deletion.
C8_Original ==
    RunDone =>
        \A d \in matched :
            \A p \in DxfFilesOf(fsStart) :
                (/\ IsBelow(p, d)
                 /\ \A i \in Len(d)..(Len(p) - 1) : fsStart[Prefix(p, i)].readable)
                    => p \in attempted

\* C8 amended: the entries handed to the paired deletion are exactly the
\* entries named *.dxf directly inside a selected directory.
C8_DirectChildrenOnly ==
    /\ attempted \subseteq {p \in DOMAIN fsStart : IsDxfName(p) /\ Parent(p) \in matched}
    /\ RunDone =>
        attempted = {p \in DOMAIN fsStart :
                        /\ IsDxfName(p)
                        /\ Parent(p) \in matched
                        /\ fsStart[Parent(p)].readable}

\* A finished run that handled a .dxf directly inside a selected directory
\* and left alone a .dxf pair deeper below it.
C8_Witness ==
    /\ RunDone
    /\ attempted # {}
    /\ \E d \in matched :
        \E q \in DxfFilesOf(fs) :
            /\ IsBelow(q, d)
            /\ ~IsChild(q, d)
            /\ LogOf(q) \in DOMAIN fs
            /\ q \notin attempted
            /\ \A i \in Len(d)..(Len(q) - 1) : ~AgePruned(fsStart, Prefix(q, i))

C10_SecondRunZero ==
    (pc = "idle" /\ Len(reports) >= 2) =>
        \A i \in 2..Len(reports) : reports[i] = 0

\* Two runs done, the first of which counted a pair.
C10_Witness ==
    /\ pc = "idle"
    /\ Len(reports) >= 2
    /\ reports[1] >= 1

====
